---------------------------- MODULE Spec2Model ----------------------------
(* Model of the useAsync / useSafeDispatch / asyncReducer hooks           *)
(* (exercise 02.extra-3): one controller instance, its mount guard, the   *)
(* run calls made on it and the promises those calls are waiting for.     *)
EXTENDS Integers, Sequences, FiniteSets, TLC

\* ---------------------------------------------------------------- bounds
MaxRuns == 2      \* run calls made on the controller
MaxValue == 1     \* settlement values are 0..MaxValue, 0 standing for null
MaxCleanups == 2  \* calls of the layout effect's cleanup in a trial

Null == 0
Absent == -1      \* a key the initialState object does not have

Values == Null..MaxValue
RunIds == 1..MaxRuns
Statuses == {"idle", "pending", "resolved", "rejected"}
ArgKinds == {"undefined", "promise", "number"}

VARIABLES
    state,        \* the reducer state {status, data, error}
    mountedRef,   \* mountedRef.current
    phase,        \* "rendered" (before the layout effect), "mounted", "unmounted"
    initialState, \* the argument useAsync was called with
    runs,         \* the run calls made so far, in call order
    issued,       \* number of run calls made
    requested,    \* calls of the safe dispatch
    delivered,    \* calls of unsafeDispatch
    atDetach,     \* the state when the layout effect's cleanup ran
    pokemonName,  \* the pokemonName prop of PokemonInfo
    effectQueued, \* PokemonInfo's effect is due (first commit or new name)
    caught,       \* what PokemonInfo threw to the error boundary
    probe         \* a trial call of a pure function: arguments and result

vars == <<state, mountedRef, phase, initialState, runs, issued, requested,
          delivered, atDetach, pokemonName, effectQueued, caught, probe>>

\* The state of the component that hosts the controller.
hostVars == <<pokemonName, effectQueued, caught>>

\* The state of the controller itself.
hookVars == <<state, mountedRef, phase, initialState, runs, issued, requested,
              delivered, atDetach>>

\* ------------------------------------------------------------- reducer
asyncReducerKeepsError(s, action) ==
    CASE action.type = "pending" ->
            [status |-> "pending", data |-> Null, error |-> s.error]
      [] action.type = "resolved" ->
            [status |-> "resolved", data |-> action.data, error |-> Null]
      [] action.type = "rejected" ->
            [status |-> "rejected", data |-> Null, error |-> action.error]
      [] OTHER -> [status |-> "thrown", data |-> Null, error |-> Null]

asyncReducerKeepsData(s, action) ==
    CASE action.type = "pending" ->
            [status |-> "pending", data |-> Null, error |-> Null]
      [] action.type = "resolved" ->
            [status |-> "resolved", data |-> action.data, error |-> Null]
      [] action.type = "rejected" ->
            [status |-> "rejected", data |-> s.data, error |-> action.error]
      [] OTHER -> [status |-> "thrown", data |-> Null, error |-> Null]

asyncReducerIgnoresUnknown(s, action) ==
    CASE action.type = "pending" ->
            [status |-> "pending", data |-> Null, error |-> Null]
      [] action.type = "resolved" ->
            [status |-> "resolved", data |-> action.data, error |-> Null]
      [] action.type = "rejected" ->
            [status |-> "rejected", data |-> Null, error |-> action.error]
      [] OTHER -> s

asyncReducerSuccess(s, action) ==
    CASE action.type = "pending" ->
            [status |-> "pending", data |-> Null, error |-> Null]
      [] action.type = "resolved" ->
            [status |-> "success", data |-> action.data, error |-> Null]
      [] action.type = "rejected" ->
            [status |-> "rejected", data |-> Null, error |-> action.error]
      [] OTHER -> [status |-> "thrown", data |-> Null, error |-> Null]

asyncReducerGated(s, action) ==
    CASE action.type = "pending" ->
            [status |-> "pending", data |-> Null, error |-> Null]
      [] action.type = "resolved" ->
            IF s.status = "pending"
            THEN [status |-> "resolved", data |-> action.data, error |-> Null]
            ELSE s
      [] action.type = "rejected" ->
            [status |-> "rejected", data |-> Null, error |-> action.error]
      [] OTHER -> [status |-> "thrown", data |-> Null, error |-> Null]

\* The next state for an action; the default branch throws, which is
\* recorded as the pseudo-state "thrown".
asyncReducer(s, action) ==
    CASE action.type = "pending" ->
            [status |-> "pending", data |-> Null, error |-> Null]
      [] action.type = "resolved" ->
            [status |-> "resolved", data |-> action.data, error |-> Null]
      [] action.type = "rejected" ->
            [status |-> "rejected", data |-> Null, error |-> action.error]
      [] OTHER -> [status |-> "thrown", data |-> Null, error |-> Null]

\* ------------------------------------------------------- initial state
Overrides ==
    [status : Statuses \cup {"absent"},
     data : {Absent, 1},
     error : {Absent, 1}]

NoOverride == [status |-> "absent", data |-> Absent, error |-> Absent]

useAsyncInitPending(init) ==
    [status |-> IF init.status = "absent" THEN "pending" ELSE init.status,
     data |-> IF init.data = Absent THEN Null ELSE init.data,
     error |-> IF init.error = Absent THEN Null ELSE init.error]

\* {status: 'idle', data: null, error: null, ...initialState}
useAsyncInit(init) ==
    [status |-> IF init.status = "absent" THEN "idle" ELSE init.status,
     data |-> IF init.data = Absent THEN Null ELSE init.data,
     error |-> IF init.error = Absent THEN Null ELSE init.error]

\* -------------------------------------------------------- safe dispatch
dispatchUnguarded(action) ==
    [state |-> asyncReducer(state, action), delivered |-> delivered + 1]

\* The callback useSafeDispatch returns: the state and the number of
\* unsafeDispatch calls after dispatch(action).
dispatch(action) ==
    IF mountedRef
    THEN [state |-> asyncReducer(state, action), delivered |-> delivered + 1]
    ELSE [state |-> state, delivered |-> delivered]

\* ------------------------------------------------------------ run calls
NoRun ==
    [arg |-> "none", st |-> "unused", value |-> Null, outcome |-> "none",
     aliveAtSubmit |-> FALSE, aliveAtSettle |-> FALSE,
     settledAt |-> 0, issuedAtSettle |-> 0,
     pendingAt |-> 0, terminalAt |-> 0, fired |-> 0]

NumSettled == Cardinality({j \in RunIds : runs[j].st \in {"resolved", "rejected"}})

FalsyNever(promise) == FALSE

\* !promise
Falsy(promise) == promise = "undefined"

ThenableNever(promise) == FALSE

\* promise.then is callable: the argument is a promise, one that is still
\* pending or one that had already settled when run was called.
Thenable(promise) == promise \in {"promise", "settledPromise"}

useRefInitialTrue == TRUE

\* React.useRef(false)
useRefInitial == FALSE

\* The controller right after useAsync(init) returned from the first render.
useAsync(init) ==
    /\ initialState = init
    /\ state = useAsyncInit(init)
    /\ mountedRef = useRefInitial
    /\ phase = "rendered"
    /\ runs = [i \in RunIds |-> NoRun]
    /\ issued = 0
    /\ requested = 0
    /\ delivered = 0
    /\ atDetach = useAsyncInit(init)

NoProbe == [kind |-> "none"]

\* A controller used by some component other than PokemonInfo.
NoHost ==
    /\ pokemonName = ""
    /\ effectQueued = FALSE
    /\ caught = Absent

Init ==
    /\ \E init \in Overrides : useAsync(init)
    /\ NoHost
    /\ probe = NoProbe

\* The layout effect of useSafeDispatch, run at mount.
LayoutEffect ==
    /\ phase = "rendered"
    /\ phase' = "mounted"
    /\ mountedRef' = TRUE
    /\ UNCHANGED <<state, initialState, runs, issued, requested, delivered,
                   atDetach>>

cleanupToggles(c) == [c EXCEPT !.mountedRef = ~c.mountedRef]

\* () => { mountedRef.current = false }, on the guard and the state.
cleanup(c) == [c EXCEPT !.mountedRef = FALSE]

LayoutEffectCleanupKeepsFlag ==
    /\ phase = "mounted"
    /\ phase' = "unmounted"
    /\ mountedRef' = mountedRef
    /\ atDetach' = state
    /\ UNCHANGED <<state, initialState, runs, issued, requested, delivered>>

\* The cleanup of the layout effect, run at unmount.
LayoutEffectCleanup ==
    /\ phase = "mounted"
    /\ phase' = "unmounted"
    /\ mountedRef' = cleanup([mountedRef |-> mountedRef, state |-> state]).mountedRef
    /\ state' = cleanup([mountedRef |-> mountedRef, state |-> state]).state
    /\ atDetach' = state
    /\ UNCHANGED <<initialState, runs, issued, requested, delivered>>

runNoPending(promise) ==
    /\ issued < MaxRuns
    /\ issued' = issued + 1
    /\ IF Falsy(promise)
       THEN /\ runs' = [runs EXCEPT ![issued + 1] =
                          [NoRun EXCEPT !.arg = promise, !.st = "skipped",
                                        !.outcome = "returned",
                                        !.aliveAtSubmit = mountedRef]]
            /\ UNCHANGED <<state, requested, delivered>>
       ELSE /\ UNCHANGED <<state, requested, delivered>>
            /\ runs' = [runs EXCEPT ![issued + 1] =
                          [NoRun EXCEPT
                             !.arg = promise,
                             !.st = IF Thenable(promise) THEN "inflight" ELSE "threw",
                             !.outcome = IF Thenable(promise) THEN "returned" ELSE "threw",
                             !.aliveAtSubmit = mountedRef]]
    /\ UNCHANGED <<mountedRef, phase, initialState, atDetach>>

runSyncThen(promise) ==
    /\ issued < MaxRuns
    /\ issued' = issued + 1
    /\ IF Falsy(promise)
       THEN /\ runs' = [runs EXCEPT ![issued + 1] =
                          [NoRun EXCEPT !.arg = promise, !.st = "skipped",
                                        !.outcome = "returned",
                                        !.aliveAtSubmit = mountedRef]]
            /\ UNCHANGED <<state, requested, delivered>>
       ELSE IF promise = "settledPromise"
       THEN /\ state' = dispatch([type |-> "pending"]).state
            /\ delivered' = IF mountedRef THEN delivered + 2 ELSE delivered
            /\ requested' = requested + 2
            /\ runs' = [runs EXCEPT ![issued + 1] =
                          [NoRun EXCEPT
                             !.arg = promise, !.st = "resolved",
                             !.outcome = "returned",
                             !.aliveAtSubmit = mountedRef,
                             !.aliveAtSettle = mountedRef,
                             !.settledAt = NumSettled + 1,
                             !.issuedAtSettle = issued + 1,
                             !.terminalAt = requested + 1,
                             !.pendingAt = requested + 2,
                             !.fired = 1]]
       ELSE /\ state' = dispatch([type |-> "pending"]).state
            /\ delivered' = dispatch([type |-> "pending"]).delivered
            /\ requested' = requested + 1
            /\ runs' = [runs EXCEPT ![issued + 1] =
                          [NoRun EXCEPT
                             !.arg = promise,
                             !.st = IF Thenable(promise) THEN "inflight" ELSE "threw",
                             !.outcome = IF Thenable(promise) THEN "returned" ELSE "threw",
                             !.aliveAtSubmit = mountedRef,
                             !.pendingAt = requested + 1]]
    /\ UNCHANGED <<mountedRef, phase, initialState, atDetach>>

\* run(promise): returns early on a falsy argument; otherwise dispatches
\* pending and calls promise.then, which throws a TypeError when the
\* argument has no then method.
run(promise) ==
    /\ issued < MaxRuns
    /\ issued' = issued + 1
    /\ IF Falsy(promise)
       THEN /\ runs' = [runs EXCEPT ![issued + 1] =
                          [NoRun EXCEPT !.arg = promise, !.st = "skipped",
                                        !.outcome = "returned",
                                        !.aliveAtSubmit = mountedRef]]
            /\ UNCHANGED <<state, requested, delivered>>
       ELSE /\ state' = dispatch([type |-> "pending"]).state
            /\ delivered' = dispatch([type |-> "pending"]).delivered
            /\ requested' = requested + 1
            /\ runs' = [runs EXCEPT ![issued + 1] =
                          [NoRun EXCEPT
                             !.arg = promise,
                             !.st = IF Thenable(promise) THEN "inflight" ELSE "threw",
                             !.outcome = IF Thenable(promise) THEN "returned" ELSE "threw",
                             !.aliveAtSubmit = mountedRef,
                             !.pendingAt = requested + 1]]
    /\ UNCHANGED <<mountedRef, phase, initialState, atDetach>>

\* The bookkeeping of a settlement of run i's promise.
Settled(i, kind, v) ==
    [runs EXCEPT ![i] = [@ EXCEPT !.st = kind, !.value = v,
                                  !.aliveAtSettle = mountedRef,
                                  !.settledAt = NumSettled + 1,
                                  !.issuedAtSettle = issued,
                                  !.terminalAt = requested + 1,
                                  !.fired = @ + 1]]

thenResolvedAtSubmit(i, data) ==
    /\ runs[i].st = "inflight"
    /\ runs' = Settled(i, "resolved", data)
    /\ requested' = requested + 1
    /\ IF runs[i].aliveAtSubmit
       THEN /\ state' = asyncReducer(state, [type |-> "resolved", data |-> data])
            /\ delivered' = delivered + 1
       ELSE UNCHANGED <<state, delivered>>
    /\ UNCHANGED <<mountedRef, phase, initialState, issued, atDetach>>

thenResolvedLatestOnly(i, data) ==
    /\ runs[i].st = "inflight"
    /\ runs' = Settled(i, "resolved", data)
    /\ IF i = issued
       THEN /\ state' = dispatch([type |-> "resolved", data |-> data]).state
            /\ delivered' = dispatch([type |-> "resolved", data |-> data]).delivered
            /\ requested' = requested + 1
       ELSE UNCHANGED <<state, delivered, requested>>
    /\ UNCHANGED <<mountedRef, phase, initialState, issued, atDetach>>

\* data => dispatch({type: 'resolved', data})
thenResolved(i, data) ==
    /\ runs[i].st = "inflight"
    /\ runs' = Settled(i, "resolved", data)
    /\ state' = dispatch([type |-> "resolved", data |-> data]).state
    /\ delivered' = dispatch([type |-> "resolved", data |-> data]).delivered
    /\ requested' = requested + 1
    /\ UNCHANGED <<mountedRef, phase, initialState, issued, atDetach>>

thenRejectedAfterResolved(i, error) ==
    /\ runs[i].st \in {"inflight", "resolved"}
    /\ runs' = Settled(i, "rejected", error)
    /\ state' = dispatch([type |-> "rejected", error |-> error]).state
    /\ delivered' = dispatch([type |-> "rejected", error |-> error]).delivered
    /\ requested' = requested + 1
    /\ UNCHANGED <<mountedRef, phase, initialState, issued, atDetach>>

thenRejectedSwallowed(i, error) ==
    /\ runs[i].st = "inflight"
    /\ runs' = Settled(i, "rejected", error)
    /\ UNCHANGED <<state, delivered, requested>>
    /\ UNCHANGED <<mountedRef, phase, initialState, issued, atDetach>>

\* error => dispatch({type: 'rejected', error})
thenRejected(i, error) ==
    /\ runs[i].st = "inflight"
    /\ runs' = Settled(i, "rejected", error)
    /\ state' = dispatch([type |-> "rejected", error |-> error]).state
    /\ delivered' = dispatch([type |-> "rejected", error |-> error]).delivered
    /\ requested' = requested + 1
    /\ UNCHANGED <<mountedRef, phase, initialState, issued, atDetach>>

\* The steps of a controller whose host calls run at any time with any
\* argument and is unmounted at any time.
Mount == LayoutEffect /\ UNCHANGED <<hostVars, probe>>

Unmount == LayoutEffectCleanup /\ UNCHANGED <<hostVars, probe>>

CallRun(promise) == run(promise) /\ UNCHANGED <<hostVars, probe>>

Resolve(i, data) == thenResolved(i, data) /\ UNCHANGED <<hostVars, probe>>

Reject(i, error) == thenRejected(i, error) /\ UNCHANGED <<hostVars, probe>>

Next ==
    \/ Mount
    \/ Unmount
    \/ \E promise \in ArgKinds : CallRun(promise)
    \/ \E i \in RunIds, data \in Values : Resolve(i, data)
    \/ \E i \in RunIds, error \in Values : Reject(i, error)

Spec == Init /\ [][Next]_vars

\* The same controller when run is also given promises that had already
\* settled before the call; initialState sets at most the status.
StatusOverrides == {o \in Overrides : o.data = Absent /\ o.error = Absent}

InitStatusOnly ==
    /\ \E init \in StatusOverrides : useAsync(init)
    /\ NoHost
    /\ probe = NoProbe

NextSettled ==
    \/ Mount
    \/ Unmount
    \/ \E promise \in ArgKinds \cup {"settledPromise"} : CallRun(promise)
    \/ \E i \in RunIds, data \in Values : Resolve(i, data)
    \/ \E i \in RunIds, error \in Values : Reject(i, error)

SpecSettled == InitStatusOnly /\ [][NextSettled]_vars

\* A controller that is never unmounted and whose promises all settle.
Settle(i) ==
    \E v \in Values : Resolve(i, v) \/ Reject(i, v)

NextLive ==
    \/ Mount
    \/ \E promise \in ArgKinds : CallRun(promise)
    \/ \E i \in RunIds, data \in Values : Resolve(i, data)
    \/ \E i \in RunIds, error \in Values : Reject(i, error)

SpecLive ==
    /\ InitStatusOnly
    /\ [][NextLive]_vars
    /\ \A i \in RunIds : WF_vars(Settle(i))

\* ------------------------------------------------- PokemonInfo in App
Names == {"", "pikachu", "mew"}

PokemonInfoShowsFallback(status, name) ==
    IF status = "idle" \/ name = "" THEN "Submit a pokemon"
    ELSE IF status = "pending" THEN "PokemonInfoFallback"
    ELSE IF status = "rejected" THEN "PokemonInfoFallback"
    ELSE IF status = "resolved" THEN "PokemonDataView"
    ELSE "throw impossible"

\* What a render of PokemonInfo returns or throws.
PokemonInfo(status, name) ==
    IF status = "idle" \/ name = "" THEN "Submit a pokemon"
    ELSE IF status = "pending" THEN "PokemonInfoFallback"
    ELSE IF status = "rejected" THEN "throw error"
    ELSE IF status = "resolved" THEN "PokemonDataView"
    ELSE "throw impossible"

\* The committed PokemonInfo throws at its next render, which React runs
\* before it handles any other event.
Throwing ==
    /\ phase = "mounted"
    /\ PokemonInfo(state.status, pokemonName) \in {"throw error", "throw impossible"}

\* The first render of PokemonInfo: useAsync({status: pokemonName ? 'pending' : 'idle'})
PokemonInfoInit ==
    /\ pokemonName \in Names
    /\ useAsync([status |-> IF pokemonName # "" THEN "pending" ELSE "idle",
                 data |-> Absent, error |-> Absent])
    /\ effectQueued = TRUE
    /\ caught = Absent
    /\ probe = NoProbe

PokemonInfoMount == LayoutEffect /\ UNCHANGED <<hostVars, probe>>

\* The effect on [pokemonName, run]: run(fetchPokemon(pokemonName)) unless
\* the name is empty.
PokemonInfoEffect ==
    /\ phase = "mounted"
    /\ ~Throwing
    /\ effectQueued
    /\ effectQueued' = FALSE
    /\ IF pokemonName = "" THEN UNCHANGED hookVars ELSE run("promise")
    /\ UNCHANGED <<pokemonName, caught, probe>>

\* App.handleSubmit: the new name re-renders PokemonInfo; React flushes
\* the effect of the previous render first.
handleSubmit(newPokemonName) ==
    /\ phase = "mounted"
    /\ ~Throwing
    /\ ~effectQueued
    /\ pokemonName' = newPokemonName
    /\ effectQueued' = (newPokemonName # pokemonName)
    /\ UNCHANGED <<hookVars, caught, probe>>

fetchResolved(i, data) ==
    /\ ~Throwing
    /\ thenResolved(i, data)
    /\ UNCHANGED <<hostVars, probe>>

fetchRejected(i, error) ==
    /\ ~Throwing
    /\ thenRejected(i, error)
    /\ UNCHANGED <<hostVars, probe>>

\* throw error: PokemonErrorBoundary catches it and unmounts PokemonInfo.
PokemonErrorBoundary ==
    /\ phase = "mounted"
    /\ PokemonInfo(state.status, pokemonName) = "throw error"
    /\ caught' = state.error
    /\ LayoutEffectCleanup
    /\ UNCHANGED <<pokemonName, effectQueued, probe>>

\* The Mount Component checkbox is unchecked.
setMountApp ==
    /\ ~Throwing
    /\ LayoutEffectCleanup
    /\ UNCHANGED <<hostVars, probe>>

PokemonInfoNext ==
    \/ PokemonInfoMount
    \/ PokemonInfoEffect
    \/ \E newPokemonName \in Names : handleSubmit(newPokemonName)
    \/ \E i \in RunIds, data \in Values : fetchResolved(i, data)
    \/ \E i \in RunIds, error \in Values : fetchRejected(i, error)
    \/ PokemonErrorBoundary
    \/ setMountApp

SpecPokemonInfo == PokemonInfoInit /\ [][PokemonInfoNext]_vars

\* ------------------------------------------- trials of the pure functions
AsyncStates == [status : Statuses, data : Values, error : Values]

UnknownTypes == {"idle", "reset"}

ReducerActions ==
    {[type |-> "pending"]}
    \cup {[type |-> "resolved", data |-> v] : v \in Values}
    \cup {[type |-> "rejected", error |-> v] : v \in Values}
    \cup {[type |-> t] : t \in UnknownTypes}

ReducerProbes ==
    {[kind |-> "reducer", s |-> s, action |-> a, done |-> FALSE, result |-> s] :
        s \in AsyncStates, a \in ReducerActions}

CleanupProbes ==
    {[kind |-> "cleanup", calls |-> 0,
      before |-> [mountedRef |-> g, state |-> s],
      once |-> [mountedRef |-> g, state |-> s],
      now |-> [mountedRef |-> g, state |-> s]] :
        g \in BOOLEAN, s \in AsyncStates}

PureInit ==
    /\ useAsync(NoOverride)
    /\ NoHost
    /\ probe \in ReducerProbes \cup CleanupProbes

\* asyncReducer(s, action)
callReducer ==
    /\ probe.kind = "reducer"
    /\ ~probe.done
    /\ probe' = [probe EXCEPT !.result = asyncReducer(probe.s, probe.action),
                              !.done = TRUE]
    /\ UNCHANGED <<hookVars, hostVars>>

\* One more call of the layout effect's cleanup.
callCleanup ==
    /\ probe.kind = "cleanup"
    /\ probe.calls < MaxCleanups
    /\ probe' = [probe EXCEPT !.calls = @ + 1,
                              !.now = cleanup(probe.now),
                              !.once = IF probe.calls = 0 THEN cleanup(probe.now)
                                       ELSE @]
    /\ UNCHANGED <<hookVars, hostVars>>

PureNext == callReducer \/ callCleanup

SpecPure == PureInit /\ [][PureNext]_vars

TypeOK ==
    /\ state \in [status : Statuses, data : Values, error : Values]
    /\ mountedRef \in BOOLEAN
    /\ phase \in {"rendered", "mounted", "unmounted"}
    /\ issued \in 0..MaxRuns
    /\ requested \in 0..(2 * MaxRuns)
    /\ delivered \in 0..requested

\* ------------------------------------------------------------ helpers
SettledKinds == {"resolved", "rejected"}

IdleState == [status |-> "idle", data |-> Null, error |-> Null]
PendingState == [status |-> "pending", data |-> Null, error |-> Null]

\* The state the reducer gives for the settlement of run i.
Result(i) ==
    IF runs[i].st = "resolved"
    THEN [status |-> "resolved", data |-> runs[i].value, error |-> Null]
    ELSE [status |-> "rejected", data |-> Null, error |-> runs[i].value]

\* No run that dispatches was made after run i settled.
NoRunSince(i) ==
    \A j \in RunIds :
        (runs[i].issuedAtSettle < j /\ j <= issued) => runs[j].arg = "undefined"

\* Run i is waiting and no other promise is or was in flight with it.
Alone(i) ==
    \A j \in RunIds :
        (j # i /\ runs[j].arg = "promise") =>
            /\ j < i
            /\ runs[j].st \in SettledKinds
            /\ runs[j].issuedAtSettle < i

\* ------------------------------------------------------------- claims

\* C1: once the controller is detached, the stored state is the state at
\* the moment of detachment, whatever settles afterwards.
Suppression == phase = "unmounted" => state = atDetach

SuppressionWitness ==
    /\ phase = "unmounted"
    /\ state = PendingState
    /\ \E i \in RunIds :
          /\ runs[i].st \in SettledKinds
          /\ runs[i].aliveAtSubmit
          /\ ~runs[i].aliveAtSettle

\* C2: a call of the safe dispatch calls unsafeDispatch exactly when
\* mountedRef is true at the call; otherwise nothing changes.
SafeDispatchIffAlive ==
    [][requested' = requested + 1 =>
         /\ (delivered' = delivered + 1) <=> mountedRef
         /\ ~mountedRef => (state' = state /\ delivered' = delivered)]_vars

SafeDispatchWitness ==
    /\ requested = 2
    /\ delivered = 1
    /\ \E i \in RunIds :
          /\ runs[i].st \in SettledKinds
          /\ ~runs[i].aliveAtSubmit
          /\ runs[i].aliveAtSettle
          /\ state = Result(i)

\* C3: the state is the result of the promise that settled last on a live
\* controller, whichever run call it came from.
LastSettledWins ==
    \A i \in RunIds :
        ( /\ runs[i].st \in SettledKinds
          /\ runs[i].settledAt = NumSettled
          /\ runs[i].aliveAtSettle
          /\ NoRunSince(i) ) => state = Result(i)

LastSettledWinsWitness ==
    \E i, j \in RunIds :
        /\ i < j
        /\ runs[i].st \in SettledKinds
        /\ runs[j].st \in SettledKinds
        /\ runs[j].aliveAtSettle
        /\ runs[i].aliveAtSettle
        /\ runs[j].settledAt < runs[i].settledAt
        /\ runs[i].settledAt = NumSettled
        /\ Result(i) # Result(j)
        /\ state = Result(i)

\* C4 as stated: data is non-null exactly in resolved, error exactly in
\* rejected, and both are null in idle and pending.
ExactlyOneInMatchingStatus ==
    /\ state.data # Null <=> state.status = "resolved"
    /\ state.error # Null <=> state.status = "rejected"

\* C4: data is non-null only in resolved and error only in rejected, once
\* an action was delivered or when initialState has no data and no error.
OnlyInMatchingStatus ==
    (delivered > 0 \/ (initialState.data = Absent /\ initialState.error = Absent)) =>
        /\ state.data # Null => (state.status = "resolved" /\ state.error = Null)
        /\ state.error # Null => (state.status = "rejected" /\ state.data = Null)

OnlyInMatchingStatusWitness ==
    /\ initialState.error # Absent
    /\ state = PendingState
    /\ delivered > 0

\* C5 as stated: no run call throws, whatever its argument.
RunNeverThrows == \A i \in RunIds : runs[i].outcome # "threw"

\* C5: a run call with no argument or with a promise returns normally, and
\* the promise's failure arrives as the rejected state.
RunOfPromiseNeverThrows ==
    \A i \in RunIds :
        /\ runs[i].arg \in {"undefined", "promise"} => runs[i].outcome # "threw"
        /\ runs[i].st = "rejected" => runs[i].outcome = "returned"

RunOfPromiseNeverThrowsWitness ==
    \E i \in RunIds :
        /\ runs[i].arg = "promise"
        /\ runs[i].st = "rejected"
        /\ runs[i].outcome = "returned"
        /\ runs[i].value # Null
        /\ state = Result(i)

\* C6: a run on a live controller that no other promise overlaps shows
\* pending until its promise settles and then resolved with the value.
PendingThenResolved ==
    [][\A i \in RunIds :
         /\ (runs'[i].st = "inflight" /\ runs'[i].aliveAtSubmit /\ Alone(i)') =>
                state' = PendingState
         /\ (runs[i].st = "inflight" /\ runs'[i].st = "resolved" /\ mountedRef
             /\ runs[i].aliveAtSubmit /\ Alone(i)) =>
                /\ state = PendingState
                /\ state' = [status |-> "resolved", data |-> runs'[i].value,
                             error |-> Null]]_vars

PendingThenResolvedWitness ==
    \E i \in RunIds :
        /\ runs[i].st = "resolved"
        /\ runs[i].aliveAtSubmit
        /\ runs[i].aliveAtSettle
        /\ runs[i].value # Null
        /\ Alone(i)
        /\ state = Result(i)

\* C7: on a live controller a rejection with E gives
\* {status: rejected, data: null, error: E} from any state.
RejectedClearsData ==
    [][\A i \in RunIds :
         (runs[i].st = "inflight" /\ runs'[i].st = "rejected" /\ mountedRef) =>
             state' = [status |-> "rejected", data |-> Null,
                       error |-> runs'[i].value]]_vars

RejectedClearsDataWitness ==
    \E i, j \in RunIds :
        /\ runs[j].st = "resolved"
        /\ runs[j].aliveAtSettle
        /\ runs[j].value # Null
        /\ runs[j].issuedAtSettle < i
        /\ runs[i].st = "rejected"
        /\ runs[i].aliveAtSettle
        /\ runs[i].value # Null
        /\ state = Result(i)

\* C8: run with no argument changes no state, dispatches nothing,
\* registers no continuation and returns normally.
RunUndefinedIsNoop ==
    [][(issued' = issued + 1 /\ runs'[issued'].arg = "undefined") =>
         /\ state' = state
         /\ requested' = requested
         /\ delivered' = delivered
         /\ runs'[issued'].st = "skipped"
         /\ runs'[issued'].outcome = "returned"]_vars

RunUndefinedIsNoopWitness ==
    \E i, j \in RunIds :
        /\ j < i
        /\ runs[j].st = "resolved"
        /\ runs[j].aliveAtSettle
        /\ runs[j].issuedAtSettle = j
        /\ runs[i].st = "skipped"
        /\ runs[i].aliveAtSubmit
        /\ state = Result(j)

\* C9: a controller constructed with no initialState is idle with null
\* data and error before anything has run.
FreshControllerIdle ==
    (phase = "rendered" /\ issued = 0 /\ initialState = NoOverride) =>
        state = IdleState

FreshControllerIdleWitness ==
    /\ phase = "rendered"
    /\ issued = 0
    /\ initialState = NoOverride
    /\ state.status = "idle"

\* C10: mountedRef goes from true to false only at detachment, and after
\* detachment it stays false and the state never changes.
DetachIrreversible ==
    [][/\ (mountedRef /\ ~mountedRef') => (phase = "mounted" /\ phase' = "unmounted")
       /\ phase = "unmounted" =>
            /\ ~mountedRef
            /\ ~mountedRef'
            /\ phase' = "unmounted"
            /\ state' = state]_vars

DetachIrreversibleWitness ==
    /\ phase = "unmounted"
    /\ \E i, j \in RunIds :
          /\ j < i
          /\ runs[j].aliveAtSubmit
          /\ runs[i].arg = "promise"
          /\ ~runs[i].aliveAtSubmit
          /\ runs[i].st \in SettledKinds
          /\ state = atDetach

\* C11: a run's pending dispatch comes before the dispatch of either of
\* its continuations, also for a promise that had settled before the call,
\* and on a live controller the state is pending right after it.
PendingBeforeContinuation ==
    \A i \in RunIds :
        /\ runs[i].st \in SettledKinds =>
              (0 < runs[i].pendingAt /\ runs[i].pendingAt < runs[i].terminalAt)
        /\ (runs[i].st = "inflight" /\ runs[i].aliveAtSubmit
            /\ requested = runs[i].pendingAt) => state = PendingState

PendingBeforeContinuationWitness ==
    \E i \in RunIds :
        /\ runs[i].arg = "settledPromise"
        /\ runs[i].st \in SettledKinds
        /\ runs[i].aliveAtSubmit
        /\ runs[i].aliveAtSettle
        /\ runs[i].pendingAt < runs[i].terminalAt
        /\ state = Result(i)

\* C14: each run's continuations fire at most once in total, and the safe
\* dispatch is called once (pending) per run with a truthy argument and
\* once more per settled promise.
OneContinuationPerRun ==
    /\ \A i \in RunIds :
          /\ runs[i].fired <= 1
          /\ runs[i].fired = 1 <=> runs[i].st \in SettledKinds
    /\ requested =
          Cardinality({i \in RunIds :
                          runs[i].st \in {"inflight", "threw", "resolved", "rejected"}})
          + Cardinality({i \in RunIds : runs[i].st \in SettledKinds})

OneContinuationPerRunWitness ==
    \E i, j \in RunIds :
        /\ runs[i].st = "resolved"
        /\ runs[j].st = "rejected"
        /\ runs[i].fired = 1
        /\ runs[j].fired = 1
        /\ requested = 4

\* C18: mountedRef is false until the layout effect runs; a run made
\* before it changes no state but registers its continuations, and when
\* its promise settles after the attach the state goes from the initial
\* state straight to the result.
RunBeforeAttach ==
    [][\A i \in RunIds :
         /\ phase = "rendered" => ~mountedRef
         /\ (issued' = issued + 1 /\ i = issued' /\ Thenable(runs'[i].arg)
             /\ phase = "rendered") =>
                /\ state' = state
                /\ delivered' = delivered
                /\ runs'[i].st = "inflight"
         /\ (runs[i].st = "inflight" /\ runs'[i].st \in SettledKinds
             /\ ~runs[i].aliveAtSubmit /\ mountedRef /\ issued = 1) =>
                /\ state = useAsyncInit(initialState)
                /\ state' = Result(i)']_vars

RunBeforeAttachWitness ==
    /\ issued = 1
    /\ initialState = NoOverride
    /\ runs[1].arg = "promise"
    /\ ~runs[1].aliveAtSubmit
    /\ runs[1].aliveAtSettle
    /\ runs[1].st \in SettledKinds
    /\ delivered = 1
    /\ state = Result(1)

\* C12: an action of any other type makes the reducer throw, from every
\* state: the call gives no state, neither the old one nor a new one.
UnknownActionThrows ==
    (probe.kind = "reducer" /\ probe.done
     /\ probe.action.type \notin {"pending", "resolved", "rejected"}) =>
        /\ probe.result.status = "thrown"
        /\ probe.result \notin AsyncStates

UnknownActionThrowsWitness ==
    /\ probe.kind = "reducer"
    /\ probe.done
    /\ probe.action.type = "reset"
    /\ probe.s.status = "resolved"
    /\ probe.s.data # Null
    /\ probe.result.status = "thrown"

\* C13: pending, resolved and rejected are accepted from every state and
\* the next state is built from the action only.
NextStateFromActionAlone ==
    (probe.kind = "reducer" /\ probe.done) =>
        /\ probe.action.type = "pending" => probe.result = PendingState
        /\ probe.action.type = "resolved" =>
              probe.result = [status |-> "resolved", data |-> probe.action.data,
                              error |-> Null]
        /\ probe.action.type = "rejected" =>
              probe.result = [status |-> "rejected", data |-> Null,
                              error |-> probe.action.error]

NextStateFromActionAloneWitness ==
    /\ probe.kind = "reducer"
    /\ probe.done
    /\ probe.s.status = "rejected"
    /\ probe.s.error # Null
    /\ probe.action.type = "resolved"
    /\ probe.action.data # Null
    /\ probe.result.status = "resolved"
    /\ probe.result.error = Null

\* C15: a second call of the cleanup leaves the guard and the state as
\* the first call left them: the guard false, the state untouched.
DetachIdempotent ==
    (probe.kind = "cleanup" /\ probe.calls >= 1) =>
        /\ probe.now = probe.once
        /\ probe.now.mountedRef = FALSE
        /\ probe.now.state = probe.before.state

DetachIdempotentWitness ==
    /\ probe.kind = "cleanup"
    /\ probe.calls = 2
    /\ probe.before.mountedRef
    /\ probe.before.state.status = "pending"
    /\ probe.now = probe.once

\* C16 as stated: whenever the mounted PokemonInfo has status rejected,
\* its render throws the error to the boundary.
RejectedAlwaysThrown ==
    (phase = "mounted" /\ state.status = "rejected") =>
        PokemonInfo(state.status, pokemonName) = "throw error"

\* C16: with a non-empty pokemonName a rejected status makes the render
\* throw, and what the boundary caught is the stored error; with an empty
\* pokemonName the render shows 'Submit a pokemon' whatever the status.
RejectedThrownWhenNamed ==
    /\ (phase = "mounted" /\ state.status = "rejected" /\ pokemonName # "") =>
          PokemonInfo(state.status, pokemonName) = "throw error"
    /\ pokemonName = "" =>
          PokemonInfo(state.status, pokemonName) = "Submit a pokemon"
    /\ caught # Absent =>
          (phase = "unmounted" /\ state.status = "rejected" /\ caught = state.error)

RejectedThrownWhenNamedWitness ==
    /\ phase = "unmounted"
    /\ pokemonName # ""
    /\ state.status = "rejected"
    /\ caught # Absent
    /\ caught # Null
    /\ caught = state.error

\* C19: in PokemonInfo the status is always one of idle, pending,
\* resolved, rejected, so no render reaches the final throw.
ImpossibleNeverThrown ==
    /\ state.status \in Statuses
    /\ PokemonInfo(state.status, pokemonName) # "throw impossible"

ImpossibleNeverThrownWitness ==
    /\ phase = "unmounted"
    /\ issued = 2
    /\ runs[1].st \in SettledKinds
    /\ runs[2].st \in SettledKinds
    /\ runs[1].settledAt > runs[2].settledAt
    /\ state.status = "resolved"
    /\ PokemonInfo(state.status, pokemonName) = "PokemonDataView"

\* C17: on a controller that stays mounted, a run waiting for its promise
\* leads to status resolved or rejected, and once every promise has
\* settled, the last of them on the mounted controller with no dispatching
\* run since, the status is not pending.
StatusEventuallyTerminal ==
    /\ \A i \in RunIds :
          (runs[i].st = "inflight" /\ mountedRef) ~> (state.status \in SettledKinds)
    /\ [](\A i \in RunIds :
            ( /\ mountedRef
              /\ \A j \in RunIds : runs[j].st # "inflight"
              /\ runs[i].st \in SettledKinds
              /\ runs[i].settledAt = NumSettled
              /\ runs[i].aliveAtSettle
              /\ NoRunSince(i) ) => state.status # "pending")

StatusEventuallyTerminalWitness ==
    /\ mountedRef
    /\ \A j \in RunIds : runs[j].st # "inflight"
    /\ \E i \in RunIds :
          /\ runs[i].st = "rejected"
          /\ runs[i].aliveAtSubmit
          /\ runs[i].aliveAtSettle
          /\ runs[i].settledAt = NumSettled
          /\ state = Result(i)

=============================================================================
